---- MODULE Spec2Model ----
(***************************************************************************)
(* A model of viper (src/main.rs): a command-line file wiper.  The run     *)
(* parses its options, walks every root path, overwrites each regular file *)
(* in passes, renames it to a vocabulary token and unlinks it, removes the *)
(* listed directories and counts the errors.                               *)
(***************************************************************************)
EXTENDS Integers, Sequences, FiniteSets, TLC

(***************************************************************************)
(* Bounds of the model.                                                    *)
(***************************************************************************)
\* largest size requested of make_block under SpecBlock
MaxBlockReq == 12
\* largest size of a regular file of a tree
MaxFileSize == 5
\* largest ordinary value of the -n flag (besides the i32 extremes)
MaxRounds == 2
\* most occurrences of the -v flag
MaxVerbose == 2
\* most injected I/O failures in one run
MaxFaults == 1
\* the size of the other files of a tree
AuxFileSize == 3

(***************************************************************************)
(* Program constants.                                                      *)
(***************************************************************************)
DEFAULT_NUM_ROUNDS == 1
DEFAULT_BLOCK_SIZE == 8
\* the shift of `opts.block_size *= 1 << 20`
MIB_SHIFT == 20
\* i32: two's complement, 32 bits
I32_BITS == 32

Pow2(n) == 2 ^ n
\* 2^31 - 1, written so that no intermediate value leaves 32 bits
MaxI32 == (Pow2(I32_BITS - 2) - 1) * 2 + 1
MinI32 == (-MaxI32) - 1

Min(a, b) == IF a < b THEN a ELSE b

\* what a call returns: a buffer, or a panic (an arithmetic overflow in a checked
\* build, a slice index out of range, a capacity overflow)
Returned(buf) == [panic |-> FALSE, buf |-> buf]
Panicked == [panic |-> TRUE, buf |-> <<>>]

(***************************************************************************)
(* make_values: the vocabulary.  A token is a sequence of bytes, each      *)
(* written as a one-character string.                                      *)
(***************************************************************************)
Repeat(ch, n) == [i \in 1..n |-> ch]

\* one iteration of the innermost loop: the token of family a, run length b,
\* padding c
Token(a, b, c) ==
    <<"8">> \o (IF a # 0 THEN <<"#">> ELSE <<>>) \o Repeat("=", b) \o <<"D">>
            \o (IF c # 0 THEN <<" ">> \o Repeat("~", c) ELSE <<>>)

\* the tokens pushed for family a, in loop order: b in 1..(8 or 9), c in 0..4
FamilyTokens(a) ==
    LET nb == IF a # 0 THEN 7 ELSE 8
    IN  [i \in 1..(nb * 4) |-> Token(a, ((i - 1) \div 4) + 1, (i - 1) % 4)]

make_values ==
    FamilyTokens(0) \o FamilyTokens(1)
        \o << <<"{", "(", ")", "}">>, <<"(", "{", "}", ")">> >>

values == make_values

Range(s) == {s[i] : i \in DOMAIN s}

(***************************************************************************)
(* make_block(size): every buffer the loop can return, over all the        *)
(* choices of params.values.choose, or a panic.  pos and the lengths are     *)
(* u64: `value_len - (pos - size) - 1` below zero is an overflow panic in  *)
(* a checked build and, wrapped to 2^64 - 1, a slice end out of range in   *)
(* an unchecked one.                                                       *)
(***************************************************************************)
RECURSIVE make_block_loop(_, _, _)
make_block_loop(size, pos, res) ==
    IF ~(pos < size) THEN {Returned(res)}
    ELSE UNION {
        LET value_len == Len(value)
            pos2 == pos + value_len + 1
        IN  IF pos2 > size
            THEN LET n == value_len - (pos2 - size) - 1
                 IN  IF n < 0 THEN {Panicked}
                     ELSE {Returned(res \o SubSeq(value, 1, n))}
            ELSE make_block_loop(size, pos2, res \o value \o <<" ">>)
        : value \in Range(values) }

make_block(size) == make_block_loop(size, 0, <<>>)

\* the length of each outcome of make_block(size)
BlockLens(size) ==
    {[panic |-> r.panic, len |-> Len(r.buf)] : r \in make_block(size)}

(***************************************************************************)
(* get_opts, after the flag loop: the defaults and the conversion of the   *)
(* block size to bytes.  a is the parsed command line: the number of -v,   *)
(* the -r and -z flags, the values of -n and -b (0, the value of           *)
(* Opts::default, when the flag is absent) and the paths.  The product     *)
(* `block_size * (1 << 20)` is an i32: a checked build panics when it      *)
(* leaves the type, an unchecked one keeps its low 32 bits.                *)
(***************************************************************************)
MulOverflows(mib) == mib >= Pow2(I32_BITS - 1 - MIB_SHIFT)

\* the low 32 bits of mib * 2^20 read as an i32, for mib >= 1
WrapMul(mib) ==
    LET r == mib % Pow2(I32_BITS - MIB_SHIFT)
    IN  IF r < Pow2(I32_BITS - 1 - MIB_SHIFT)
        THEN r * Pow2(MIB_SHIFT)
        ELSE (r - Pow2(I32_BITS - MIB_SHIFT)) * Pow2(MIB_SHIFT)

\* Opts::default()
DefaultOpts ==
    [panic |-> FALSE, verbose |-> 0, recursive |-> FALSE, zero |-> FALSE,
     num_rounds |-> 0, block_size |-> 0, files |-> {}]

get_opts(a, chk) ==
    LET num_rounds == IF a.n < 1 THEN DEFAULT_NUM_ROUNDS ELSE a.n
        mib == IF a.b < 1 THEN DEFAULT_BLOCK_SIZE ELSE a.b
    IN  [panic |-> MulOverflows(mib) /\ chk,
         verbose |-> a.verbose, recursive |-> a.recursive, zero |-> a.zero,
         num_rounds |-> num_rounds, block_size |-> WrapMul(mib),
         files |-> a.files]

(***************************************************************************)
(* The file system.  A path is a sequence of names and a name a sequence   *)
(* of bytes, as a token is.  fs maps each existing path to its node: a     *)
(* regular file with its size, a directory, or a symbolic link with its    *)
(* target.  wr is what the run wrote to a file: one entry per pass that    *)
(* opened it and found it non-empty, with the bytes written so far.        *)
(***************************************************************************)
Nil == <<>>

FileNode(size) == [kind |-> "file", size |-> size, target |-> Nil, wr |-> <<>>]
DirNode == [kind |-> "dir", size |-> 0, target |-> Nil, wr |-> <<>>]
LinkNode(t) == [kind |-> "link", size |-> 0, target |-> t, wr |-> <<>>]

Parent(p) == SubSeq(p, 1, Len(p) - 1)

\* with_file_name, had the code used Path::join
with_file_name_joined(p, name) == p \o <<name>>

\* Path::with_file_name
with_file_name(p, name) == Parent(p) \o <<name>>

Children(f, p) == {q \in DOMAIN f : Len(q) = Len(p) + 1 /\ Parent(q) = p}

\* p is q or lies below it
Under(p, q) == Len(p) >= Len(q) /\ SubSeq(p, 1, Len(q)) = q

RemoveNode(f, p) == [q \in DOMAIN f \ {p} |-> f[q]]

\* rename(2): the destination, when it exists, is replaced
RenameNode(f, old, new) ==
    IF old = new THEN f
    ELSE [q \in (DOMAIN f \ {old}) \cup {new} |-> IF q = new THEN f[old] ELSE f[q]]

\* Path::canonicalize: the path with its symbolic link resolved, or Nil when a
\* component does not exist
canonicalize(f, p) ==
    IF p \notin DOMAIN f THEN Nil
    ELSE IF f[p].kind = "link"
         THEN (IF f[p].target \in DOMAIN f THEN f[p].target ELSE Nil)
         ELSE p

(***************************************************************************)
(* The state.                                                              *)
(***************************************************************************)
VARIABLES
    argv,           \* the command line as the flag loop of get_opts read it
    checked,        \* whether the build checks arithmetic overflow
    pc,             \* the position of main
    opts,           \* Params.opts
    zero_block,     \* Params.zero_block: whether it is Some, and the buffer's length
    error_counter,  \* Params.error_counter
    todo,           \* the roots the loop of main has not walked yet
    stack,          \* the calls of walk1/walk in progress, innermost last
    fs,             \* the file system
    fs0,            \* history: the file system when the run began
    faults,         \* the I/O operations that have failed so far
    result,         \* what main returned, and the count its error reports
    walked,         \* history: the <<path, depth>> walk was called with
    wl,             \* history: the last call of wipe_loop: its path, the size
                    \* of the file, what the rename found at its target, the
                    \* operations performed, the lines printed, the outcome
                    \* and the step that failed
    mb_size,        \* the size asked of make_block
    mb_out,         \* what make_block returned
    stderr          \* the errors walk and walk1 have printed with eprintln!

vars == <<argv, checked, pc, opts, zero_block, error_counter, todo, stack, fs,
          fs0, faults, result, walked, wl, mb_size, mb_out, stderr>>


(***************************************************************************)
(* Names and trees of the initial states.                                  *)
(***************************************************************************)
NameR == <<"r">>
NameA == <<"a">>
NameB == <<"b">>
NameL == <<"l">>
NameM == <<"m">>
NameO == <<"o">>
NameX == <<"x">>
\* a file and a directory that bear the names of tokens
TokFile == values[Len(values) - 1]
TokDir == values[Len(values)]

PR == <<NameR>>
PA == <<NameR, NameA>>
PT == <<NameR, TokFile>>
PD == <<NameR, TokDir>>
PB == <<NameR, TokDir, NameB>>
PL == <<NameR, NameL>>
PM == <<NameM>>
PO == <<NameO>>
PX == <<NameO, NameX>>

FileSizes == 0..MaxFileSize

\* a directory with one file
TreeOne(s) == (PR :> DirNode) @@ (PA :> FileNode(s))

\* a directory with a file and a file named as a token
TreeTok ==
    (PR :> DirNode) @@ (PA :> FileNode(AuxFileSize))
        @@ (PT :> FileNode(AuxFileSize))

\* a directory with a file and a subdirectory, named as a token, that holds
\* a file
TreeSub ==
    (PR :> DirNode) @@ (PA :> FileNode(AuxFileSize)) @@ (PD :> DirNode)
        @@ (PB :> FileNode(AuxFileSize))

\* a directory with a symbolic link to t; a directory with a file outside it
TreeLink(t) ==
    (PR :> DirNode) @@ (PL :> LinkNode(t)) @@ (PO :> DirNode)
        @@ (PX :> FileNode(AuxFileSize))

Trees ==
    {TreeOne(s) : s \in FileSizes} \cup {TreeTok, TreeSub}
        \cup {TreeLink(t) : t \in {PX, PO, PM}}

\* the sets of paths of the command line
RootSets == {{PR}, {PA, PM}}

(***************************************************************************)
(* Initial states: the process before main runs.                           *)
(***************************************************************************)
\* values of -n and -b in a run: absent, ordinary, and the ones whose
\* arithmetic leaves an i32
RoundArgs == (1..MaxRounds) \cup {MaxI32}
BlockArgs == {0, Pow2(I32_BITS - 1 - MIB_SHIFT), Pow2(I32_BITS - MIB_SHIFT)}

None == [some |-> FALSE, len |-> 0]
Some(len) == [some |-> TRUE, len |-> len]
NotCalled == [ret |-> FALSE, panic |-> FALSE, buf |-> <<>>]

\* whether a run with these arguments performs an i32 operation that overflows
Overflows(a) ==
    \/ MulOverflows(IF a.b < 1 THEN DEFAULT_BLOCK_SIZE ELSE a.b)
    \/ a.n = MaxI32

NoCall ==
    [path |-> Nil, size |-> 0, target |-> "none", ops |-> <<>>, out |-> <<>>,
     done |-> "no", failed |-> "none"]

InitRest ==
    /\ pc = "start"
    /\ opts = DefaultOpts
    /\ zero_block = None
    /\ error_counter = 0
    /\ todo = {}
    /\ stack = <<>>
    /\ faults = 0
    /\ result = [ret |-> "none", errors |-> 0]
    /\ walked = {}
    /\ wl = NoCall
    /\ mb_size = 0
    /\ mb_out = NotCalled
    /\ stderr = <<>>

\* one file named on the command line, under every setting of the options
\* that bear on its wipe
FileRun ==
    /\ argv \in [verbose : 0..MaxVerbose, recursive : {FALSE}, zero : BOOLEAN,
                 n : RoundArgs, b : BlockArgs, files : {{PA}}]
    /\ fs \in {TreeOne(s) : s \in FileSizes}

\* every tree under every set of roots, with and without -r and -z
TreeRun ==
    /\ argv \in [verbose : {0}, recursive : BOOLEAN, zero : BOOLEAN,
                 n : {0}, b : {0}, files : RootSets]
    /\ fs \in Trees

Init ==
    /\ FileRun \/ TreeRun
    \* the two builds differ only when an operation overflows
    /\ checked \in (IF Overflows(argv) THEN BOOLEAN ELSE {FALSE})
    /\ fs0 = fs
    /\ InitRest

(***************************************************************************)
(* main, lines 275-285: get_opts, then the zero block.                     *)
(***************************************************************************)
GetOpts ==
    /\ pc = "start"
    /\ LET o == get_opts(argv, checked)
       IN  IF o.panic
           THEN pc' = "panic" /\ opts' = opts
           ELSE pc' = "alloc" /\ opts' = o
    /\ UNCHANGED <<argv, fs0, checked, zero_block, error_counter, todo, stack, fs,
                   faults, result, walked, wl, mb_size, mb_out, stderr>>

\* `vec![0; block_size as usize]`: a negative block_size is, as a usize, more
\* than isize::MAX bytes, and the allocation panics with a capacity overflow
MainAlloc ==
    /\ pc = "alloc"
    /\ IF opts.zero /\ opts.block_size < 0
       THEN pc' = "panic" /\ UNCHANGED <<zero_block, todo>>
       ELSE /\ pc' = "roots"
            /\ zero_block' = IF opts.zero THEN Some(opts.block_size) ELSE None
            /\ todo' = opts.files
    /\ UNCHANGED <<argv, fs0, checked, opts, error_counter, stack, fs, faults,
                   result, walked, wl, mb_size, mb_out, stderr>>

(***************************************************************************)
(* A call of walk1(path, depth): the frame of walk, and of wipe_loop and   *)
(* wipe under it.  `at` is the operation the call performs next.           *)
(***************************************************************************)
Frame(path, depth) ==
    [path |-> path, depth |-> depth, at |-> "resolve", cpath |-> Nil,
     listed |-> {}, entries |-> {}, n |-> 0, end |-> 0, file_size |-> 0, block_size |-> 0,
     block |-> 0, pos |-> 0, new_path |-> Nil]

top == stack[Len(stack)]
SetTop(fr) == [stack EXCEPT ![Len(stack)] = fr]
At(a) == pc = "walk" /\ stack # <<>> /\ top.at = a

\* the frames of wipe_loop and wipe
InWipeLoop ==
    pc = "walk" /\ stack # <<>>
        /\ top.at \in {"round", "open", "block", "write", "rename"}

\* the line of an error: the operation that failed and the path walk was
\* called with
ErrLine(op) == [op |-> op, path |-> top.path]

\* Return, had walk called walk instead of walk1 on its entries: the error of
\* a child would leave every walk in progress
ReturnPropagate(ok) ==
    /\ stack' = IF ok THEN SubSeq(stack, 1, Len(stack) - 1) ELSE <<>>
    /\ error_counter' = IF ok THEN error_counter ELSE error_counter + 1
    /\ stderr' = IF ok THEN stderr ELSE Append(stderr, ErrLine(top.at))
    /\ pc' = IF Len(stack) = 1 \/ ~ok THEN "roots" ELSE "walk"
    /\ wl' = IF InWipeLoop
             THEN [wl EXCEPT !.done = IF ok THEN "ok" ELSE "err"]
             ELSE wl

\* Return, had walk counted its error before walk1 counts it again
ReturnCountedTwice(ok) ==
    /\ stack' = SubSeq(stack, 1, Len(stack) - 1)
    /\ error_counter' = IF ok THEN error_counter ELSE error_counter + 2
    /\ stderr' = IF ok THEN stderr ELSE Append(stderr, ErrLine(top.at))
    /\ pc' = IF Len(stack) = 1 THEN "roots" ELSE "walk"
    /\ wl' = IF InWipeLoop
             THEN [wl EXCEPT !.done = IF ok THEN "ok" ELSE "err"]
             ELSE wl

\* walk returns to walk1, which counts an error, and walk1 to its caller
Return(ok) ==
    /\ stack' = SubSeq(stack, 1, Len(stack) - 1)
    /\ error_counter' = IF ok THEN error_counter ELSE error_counter + 1
    /\ stderr' = IF ok THEN stderr ELSE Append(stderr, ErrLine(top.at))
    /\ pc' = IF Len(stack) = 1 THEN "roots" ELSE "walk"
    /\ wl' = IF InWipeLoop
             THEN [wl EXCEPT !.done = IF ok THEN "ok" ELSE "err"]
             ELSE wl

\* the step of wipe_loop and wipe the call performs next
StepAt ==
    IF top.at = "write"
    THEN (IF top.pos < top.file_size THEN "write" ELSE "sync")
    ELSE top.at

\* WipeFails, had wipe_loop dropped the error of a step and gone on to the
\* rename
WipeFailsIgnored(step) ==
    /\ stack' = SetTop([top EXCEPT !.at = "rename"])
    /\ error_counter' = error_counter
    /\ stderr' = stderr
    /\ pc' = pc
    /\ wl' = [wl EXCEPT !.failed = step]

\* a step of wipe or wipe_loop fails: the `?` of wipe, wipe_loop and walk
\* return the error to walk1, which counts it
WipeFails(step) ==
    /\ stack' = SubSeq(stack, 1, Len(stack) - 1)
    /\ error_counter' = error_counter + 1
    /\ stderr' = Append(stderr, ErrLine(step))
    /\ pc' = IF Len(stack) = 1 THEN "roots" ELSE "walk"
    /\ wl' = [wl EXCEPT !.done = "err", !.failed = step]

\* main, lines 286-288: the next root, in the order of the HashSet
MainNextRoot ==
    /\ pc = "roots"
    /\ \E file \in todo :
        /\ todo' = todo \ {file}
        /\ stack' = <<Frame(file, 0)>>
        /\ walked' = walked \cup {<<file, 0>>}
    /\ pc' = "walk"
    /\ UNCHANGED <<argv, fs0, checked, opts, zero_block, error_counter, fs, faults,
                   result, wl, mb_size, mb_out, stderr>>

\* MainFinish, had main tested the counter inside its loop
MainFinishAtFirstError ==
    /\ pc = "roots"
    /\ todo = {} \/ error_counter # 0
    /\ pc' = "done"
    /\ result' = IF error_counter # 0
                 THEN [ret |-> "err", errors |-> error_counter]
                 ELSE [ret |-> "ok", errors |-> 0]
    /\ UNCHANGED <<argv, fs0, checked, opts, zero_block, error_counter, todo,
                   stack, fs, faults, walked, wl, mb_size, mb_out, stderr>>

\* main, lines 289-292
MainFinish ==
    /\ pc = "roots"
    /\ todo = {}
    /\ pc' = "done"
    /\ result' = IF error_counter # 0
                 THEN [ret |-> "err", errors |-> error_counter]
                 ELSE [ret |-> "ok", errors |-> 0]
    /\ UNCHANGED <<argv, fs0, checked, opts, zero_block, error_counter, todo, stack,
                   fs, faults, walked, wl, mb_size, mb_out, stderr>>

(***************************************************************************)
(* walk, lines 235-257.                                                    *)
(***************************************************************************)
\* path.canonicalize()?, fs::metadata(path)?.is_dir(), and the test of depth
\* and of the recursive flag
WalkResolve ==
    /\ At("resolve")
    /\ LET c == canonicalize(fs, top.path)
       IN  IF c = Nil
           THEN Return(FALSE)
           ELSE IF fs[c].kind = "dir"
                THEN IF top.depth > 0 /\ ~opts.recursive
                     THEN Return(TRUE)
                     ELSE /\ stack' = SetTop([top EXCEPT !.cpath = c,
                                                         !.at = "read_dir"])
                          /\ UNCHANGED <<pc, error_counter, wl, stderr>>
                ELSE /\ stack' = SetTop([top EXCEPT !.cpath = c,
                                                    !.at = "wipe_loop"])
                     /\ UNCHANGED <<pc, error_counter, wl, stderr>>
    /\ UNCHANGED <<argv, fs0, checked, opts, zero_block, todo, fs, faults, result,
                   walked, mb_size, mb_out>>

\* fs::read_dir(path)?: the entries the iterator will yield
WalkReadDir ==
    /\ At("read_dir")
    /\ stack' = SetTop([top EXCEPT !.listed = Children(fs, top.cpath),
                                   !.entries = Children(fs, top.cpath),
                                   !.at = "entries"])
    /\ UNCHANGED <<argv, fs0, checked, pc, opts, zero_block, error_counter, todo, fs,
                   faults, result, walked, wl, mb_size, mb_out, stderr>>

\* the iterator yields Ok(entry): walk1(&entry.path(), depth + 1, params)
WalkEntry ==
    /\ At("entries")
    /\ \E e \in top.entries :
        /\ stack' = Append(SetTop([top EXCEPT !.entries = @ \ {e}]),
                           Frame(e, top.depth + 1))
        /\ walked' = walked \cup {<<e, top.depth + 1>>}
    /\ UNCHANGED <<argv, fs0, checked, pc, opts, zero_block, error_counter, todo, fs,
                   faults, result, wl, mb_size, mb_out, stderr>>

\* an entry removed since read_dir (a rename replaced it) may not be yielded:
\* readdir leaves it unspecified
WalkEntryGone ==
    /\ At("entries")
    /\ \E e \in top.entries :
        /\ e \notin DOMAIN fs
        /\ stack' = SetTop([top EXCEPT !.entries = @ \ {e}])
    /\ UNCHANGED <<argv, fs0, checked, pc, opts, zero_block, error_counter, todo, fs,
                   faults, result, walked, wl, mb_size, mb_out, stderr>>

\* the iterator yields Err for an entry: counted, and the loop continues
WalkEntryErr ==
    /\ At("entries")
    /\ faults < MaxFaults
    /\ \E e \in top.entries :
        stack' = SetTop([top EXCEPT !.entries = @ \ {e}])
    /\ error_counter' = error_counter + 1
    /\ stderr' = Append(stderr, ErrLine("entry"))
    /\ faults' = faults + 1
    /\ UNCHANGED <<argv, fs0, checked, pc, opts, zero_block, todo, fs, result,
                   walked, wl, mb_size, mb_out>>

\* WalkRemoveDir, had remove_dir been called inside the loop over the entries
WalkRemoveDirInLoop ==
    /\ At("entries")
    /\ IF Children(fs, top.cpath) # {}
       THEN Return(FALSE) /\ fs' = fs
       ELSE Return(TRUE) /\ fs' = RemoveNode(fs, top.cpath)
    /\ UNCHANGED <<argv, fs0, checked, opts, zero_block, todo, faults, result,
                   walked, mb_size, mb_out>>

\* the loop is over: fs::remove_dir(path)?, which fails on a directory that
\* is not empty
WalkRemoveDir ==
    /\ At("entries")
    /\ top.entries = {}
    /\ IF Children(fs, top.cpath) # {}
       THEN Return(FALSE) /\ fs' = fs
       ELSE Return(TRUE) /\ fs' = RemoveNode(fs, top.cpath)
    /\ UNCHANGED <<argv, fs0, checked, opts, zero_block, todo, faults, result,
                   walked, mb_size, mb_out>>

(***************************************************************************)
(* wipe_loop, lines 216-228.                                               *)
(***************************************************************************)
WipeLine == [line |-> "wipe", n |-> 0]
RoundLine(n) == [line |-> "round", n |-> n]

\* StartLines, had the test been `verbose >= 1`
StartLinesFromOne(verbose) == IF verbose >= 1 THEN <<WipeLine>> ELSE <<>>

\* lines 217-219: the "[wipe]" line
StartLines(verbose) == IF verbose = 1 THEN <<WipeLine>> ELSE <<>>

\* the end of the range `0..num_rounds + 1`: an i32 sum
\* that a checked build panics on and an unchecked build wraps
WipeLoopStart ==
    /\ At("wipe_loop")
    /\ wl' = [path |-> top.cpath, size |-> fs[top.cpath].size, target |-> "none",
              ops |-> <<>>, done |-> "no", failed |-> "none",
              out |-> StartLines(opts.verbose)]
    /\ IF opts.num_rounds = MaxI32
       THEN IF checked
            THEN pc' = "panic" /\ stack' = stack
            ELSE /\ stack' = SetTop([top EXCEPT !.at = "round", !.n = 0,
                                                !.end = MinI32])
                 /\ pc' = pc
       ELSE /\ stack' = SetTop([top EXCEPT !.at = "round", !.n = 0,
                                           !.end = opts.num_rounds + 1])
            /\ pc' = pc
    /\ UNCHANGED <<argv, fs0, checked, opts, zero_block, error_counter, todo, fs,
                   faults, result, walked, mb_size, mb_out, stderr>>

\* the head of `for n in 0..end` and the body down to the call of wipe
WipeLoopRound ==
    /\ At("round")
    /\ IF ~(top.n < top.end)
       THEN stack' = SetTop([top EXCEPT !.at = "rename"]) /\ wl' = wl
       ELSE IF top.n = 0 /\ ~opts.zero
            THEN stack' = SetTop([top EXCEPT !.n = @ + 1]) /\ wl' = wl
            ELSE /\ stack' = SetTop([top EXCEPT !.at = "open"])
                 /\ wl' = [wl EXCEPT
                        !.out = IF opts.verbose > 1
                                THEN Append(@, RoundLine(top.n)) ELSE @,
                        !.ops = Append(@, [op |-> "pass", n |-> top.n])]
    /\ UNCHANGED <<argv, fs0, checked, pc, opts, zero_block, error_counter, todo, fs,
                   faults, result, walked, mb_size, mb_out, stderr>>

(***************************************************************************)
(* wipe, lines 187-214.                                                    *)
(***************************************************************************)
\* the file is opened for writing, and a size of zero is an error
WipeOpen ==
    /\ At("open")
    /\ LET file_size == fs[top.cpath].size
       IN  IF file_size = 0
           THEN WipeFails("size") /\ fs' = fs
           ELSE /\ stack' = SetTop([top EXCEPT !.file_size = file_size,
                                               !.at = "block"])
                /\ fs' = [fs EXCEPT ![top.cpath].wr =
                            Append(@, [round |-> top.n, bytes |-> 0])]
                /\ UNCHANGED <<pc, error_counter, wl, stderr>>
    /\ UNCHANGED <<argv, fs0, checked, opts, zero_block, todo, faults, result,
                   walked, mb_size, mb_out>>

\* `min(file_size, block_size as u64)`: a negative i32 is, as a u64, at least
\* 2^64 - 2^31, above every file size
MinWithCast(file_size, block_size) ==
    IF block_size < 0 THEN file_size ELSE Min(file_size, block_size)

\* the block of the pass: the zero block in round 0, a fresh make_block otherwise
WipeBlock ==
    /\ At("block")
    /\ IF top.n = 0
       THEN IF ~zero_block.some
            THEN pc' = "panic" /\ stack' = stack
            ELSE /\ stack' = SetTop([top EXCEPT !.block_size = opts.block_size,
                                                !.block = zero_block.len,
                                                !.pos = 0, !.at = "write"])
                 /\ pc' = pc
       ELSE LET block_size == MinWithCast(top.file_size, opts.block_size)
            IN  \E r \in BlockLens(block_size) :
                    IF r.panic
                    THEN pc' = "panic" /\ stack' = stack
                    ELSE /\ stack' = SetTop([top EXCEPT !.block_size = block_size,
                                                        !.block = r.len,
                                                        !.pos = 0, !.at = "write"])
                         /\ pc' = pc
    /\ UNCHANGED <<argv, fs0, checked, opts, zero_block, error_counter, todo, fs,
                   faults, result, walked, wl, mb_size, mb_out, stderr>>

\* the bytes one turn of `while pos < file_size` hands to write_all when pos
\* is already advanced: the block, or its slice at the end of the file
WriteLen(pos, file_size, block_size, block) ==
    IF pos > file_size THEN block_size - (pos - file_size) ELSE block

\* one turn of the loop; the slice panics when it ends past the block
WipeWrite ==
    /\ At("write")
    /\ top.pos < top.file_size
    /\ LET pos == top.pos + top.block_size
           len == WriteLen(pos, top.file_size, top.block_size, top.block)
       IN  IF len > top.block
           THEN pc' = "panic" /\ UNCHANGED <<stack, fs>>
           ELSE /\ stack' = SetTop([top EXCEPT !.pos = pos])
                /\ fs' = [fs EXCEPT ![top.cpath].wr[Len(fs[top.cpath].wr)].bytes =
                                        @ + len]
                /\ pc' = pc
    /\ UNCHANGED <<argv, fs0, checked, opts, zero_block, error_counter, todo, faults,
                   result, walked, wl, mb_size, mb_out, stderr>>

\* the loop is over: file.sync_all()?, and wipe returns to the loop of wipe_loop
WipeSync ==
    /\ At("write")
    /\ ~(top.pos < top.file_size)
    /\ stack' = SetTop([top EXCEPT !.n = @ + 1, !.at = "round"])
    /\ wl' = [wl EXCEPT !.ops = Append(@, [op |-> "sync", n |-> top.n])]
    /\ UNCHANGED <<argv, fs0, checked, pc, opts, zero_block, error_counter, todo, fs,
                   faults, result, walked, mb_size, mb_out, stderr>>

(***************************************************************************)
(* wipe_loop, lines 229-232: the rename and the unlink.                    *)
(***************************************************************************)
RenameOp == [op |-> "rename", n |-> 0]
UnlinkOp == [op |-> "unlink", n |-> 0]

\* what the rename finds at new_path: the file itself, nothing, or a node
TargetKind(f, path, new_path) ==
    IF new_path = path THEN "self"
    ELSE IF new_path \in DOMAIN f THEN f[new_path].kind ELSE "absent"

\* RenamedAndRemoved, had the unlink been forgotten
RenamedNotRemoved(f, path, new_path) == RenameNode(f, path, new_path)

\* the file system once wipe_loop has renamed path to new_path and removed
\* new_path
RenamedAndRemoved(f, path, new_path) ==
    RemoveNode(RenameNode(f, path, new_path), new_path)

\* rename(2) of a file fails on a destination that is a directory
WipeRename ==
    /\ At("rename")
    /\ \E value \in Range(values) :
        LET new_path == with_file_name(top.cpath, value)
        IN  IF new_path \in DOMAIN fs /\ fs[new_path].kind = "dir"
            THEN WipeFails("rename") /\ fs' = fs
            ELSE /\ fs' = RenamedAndRemoved(fs, top.cpath, new_path)
                 /\ stack' = SubSeq(stack, 1, Len(stack) - 1)
                 /\ error_counter' = error_counter
                 /\ stderr' = stderr
                 /\ pc' = IF Len(stack) = 1 THEN "roots" ELSE "walk"
                 /\ wl' = [wl EXCEPT !.ops = @ \o <<RenameOp, UnlinkOp>>,
                                     !.target = TargetKind(fs, top.cpath, new_path), !.done = "ok"]
    /\ UNCHANGED <<argv, fs0, checked, opts, zero_block, todo, faults, result,
                   walked, mb_size, mb_out>>

\* the rename is done and fs::remove_file(new_path)? fails
WipeRemoveFail ==
    /\ At("rename")
    /\ faults < MaxFaults
    /\ \E value \in Range(values) :
        LET new_path == with_file_name(top.cpath, value)
        IN  /\ ~(new_path \in DOMAIN fs /\ fs[new_path].kind = "dir")
            /\ fs' = RenameNode(fs, top.cpath, new_path)
            /\ wl' = [wl EXCEPT !.ops = Append(@, RenameOp),
                                !.target = TargetKind(fs, top.cpath, new_path),
                                !.done = "err", !.failed = "unlink"]
    /\ faults' = faults + 1
    /\ stack' = SubSeq(stack, 1, Len(stack) - 1)
    /\ error_counter' = error_counter + 1
    /\ stderr' = Append(stderr, ErrLine("unlink"))
    /\ pc' = IF Len(stack) = 1 THEN "roots" ELSE "walk"
    /\ UNCHANGED <<argv, fs0, checked, opts, zero_block, todo, result, walked,
                   mb_size, mb_out>>

(***************************************************************************)
(* The operating system fails the I/O operation the run performs next:     *)
(* the `?` returns the error from wipe, wipe_loop and walk to walk1.       *)
(***************************************************************************)
IoPending ==
    /\ pc = "walk"
    /\ stack # <<>>
    /\ \/ top.at \in {"resolve", "read_dir", "open", "write", "rename"}
       \/ top.at = "entries" /\ top.entries = {}

IoFail ==
    /\ IoPending
    /\ faults < MaxFaults
    /\ faults' = faults + 1
    /\ IF InWipeLoop THEN WipeFails(StepAt) ELSE Return(FALSE)
    /\ UNCHANGED <<argv, fs0, checked, opts, zero_block, todo, fs, result, walked,
                   mb_size, mb_out>>

(***************************************************************************)
(* The run.                                                                *)
(***************************************************************************)
Next ==
    \/ GetOpts
    \/ MainAlloc
    \/ MainNextRoot
    \/ MainFinish
    \/ WalkResolve
    \/ WalkReadDir
    \/ WalkEntry
    \/ WalkEntryGone
    \/ WalkEntryErr
    \/ WalkRemoveDir
    \/ WipeLoopStart
    \/ WipeLoopRound
    \/ WipeOpen
    \/ WipeBlock
    \/ WipeWrite
    \/ WipeSync
    \/ WipeRename
    \/ WipeRemoveFail
    \/ IoFail

Spec == Init /\ [][Next]_vars

\* the steps of the program itself: the process is alone on its thread and
\* its next instruction is always executed, while no I/O operation has to fail
ProgramStep ==
    \/ GetOpts
    \/ MainAlloc
    \/ MainNextRoot
    \/ MainFinish
    \/ WalkResolve
    \/ WalkReadDir
    \/ WalkEntry
    \/ WalkEntryGone
    \/ WalkRemoveDir
    \/ WipeLoopStart
    \/ WipeLoopRound
    \/ WipeOpen
    \/ WipeBlock
    \/ WipeWrite
    \/ WipeSync
    \/ WipeRename

SpecLive == Init /\ [][Next]_vars /\ WF_vars(ProgramStep)

(***************************************************************************)
(* get_opts alone, over the values of -n and -b: the small ones, the ones  *)
(* around the multiples of 2^11 MiB, and the ends of i32.                  *)
(***************************************************************************)
\* largest small value of -n and -b under SpecOpts
MaxArg == 9

OptArgs ==
    (-1..MaxArg)
        \cup {k * Pow2(I32_BITS - 1 - MIB_SHIFT) + d : k \in 1..2, d \in -1..1}
        \cup {MinI32, MaxI32}

InitOpts ==
    /\ argv \in [verbose : {0}, recursive : {FALSE}, zero : BOOLEAN,
                 n : OptArgs, b : OptArgs, files : {{PA}}]
    /\ checked \in BOOLEAN
    /\ fs = TreeOne(AuxFileSize)
    /\ fs0 = fs
    /\ InitRest

NextOpts == GetOpts

SpecOpts == InitOpts /\ [][NextOpts]_vars

(***************************************************************************)
(* make_block alone, over the sizes asked of it.                           *)
(***************************************************************************)
InitBlock ==
    /\ argv = [verbose |-> 0, recursive |-> FALSE, zero |-> FALSE, n |-> 0,
               b |-> 0, files |-> {PA}]
    /\ checked = FALSE
    /\ fs = TreeOne(AuxFileSize)
    /\ fs0 = fs
    /\ pc = "start"
    /\ opts = DefaultOpts
    /\ zero_block = None
    /\ error_counter = 0
    /\ todo = {}
    /\ stack = <<>>
    /\ faults = 0
    /\ result = [ret |-> "none", errors |-> 0]
    /\ walked = {}
    /\ wl = NoCall
    /\ mb_size \in 0..MaxBlockReq
    /\ mb_out = NotCalled
    /\ stderr = <<>>

\* a call of make_block(mb_size, params) and its return
MakeBlockCall ==
    /\ ~mb_out.ret
    /\ \E r \in make_block(mb_size) :
        mb_out' = [ret |-> TRUE, panic |-> r.panic, buf |-> r.buf]
    /\ UNCHANGED <<argv, fs0, checked, pc, opts, zero_block, error_counter,
                   todo, stack, fs, faults, result, walked, wl, mb_size, stderr>>

NextBlock == MakeBlockCall

SpecBlock == InitBlock /\ [][NextBlock]_vars

(***************************************************************************)
(* The claims.                                                             *)
(***************************************************************************)

\* C1: for every size, make_block returns without a panic and its buffer is
\* exactly size bytes long.
C1_MakeBlockExactSize ==
    mb_out.ret => (~mb_out.panic /\ Len(mb_out.buf) = mb_size)

\* the write loop of a pass is over
PassOver == At("write") /\ ~(top.pos < top.file_size)

\* what the pass in progress has written to its file
PassBytes == fs[top.cpath].wr[Len(fs[top.cpath].wr)].bytes

\* C2: with a block size above zero, when the write loop of a pass (round 0
\* or a random round) ends, the pass has written exactly file_size bytes.
C2_PassWritesFileSize ==
    (PassOver /\ opts.block_size > 0) => PassBytes = top.file_size

OpsNamed(ops, name) == {i \in DOMAIN ops : ops[i].op = name}

\* C3: a wipe_loop on a file of size zero never succeeds and leaves the file
\* as it was: no pass wrote to it, it is not renamed and not unlinked.
C3_ZeroSizeUntouched ==
    (wl.path # Nil /\ wl.size = 0) =>
        /\ wl.done # "ok"
        /\ OpsNamed(wl.ops, "rename") = {}
        /\ OpsNamed(wl.ops, "unlink") = {}
        /\ wl.path \in DOMAIN fs
        /\ fs[wl.path] = FileNode(0)

\* C4: once wipe_loop has returned success for a path, nothing exists at
\* that path, whichever token named the rename target.
C4_OriginalGone == wl.done = "ok" => wl.path \notin DOMAIN fs

\* wipe_loop returned success having chosen the file's own name as the target
C4_Witness ==
    wl.done = "ok" /\ wl.target = "self" /\ wl.path \notin DOMAIN fs

\* the walk of the root directory PR has begun
RootDirWalked ==
    PR \in argv.files /\ fs0[PR].kind = "dir" /\ <<PR, 0>> \in walked

\* the subdirectories of PR and what they hold, as the run began
BelowSubdirs ==
    {p \in DOMAIN fs0 : /\ Under(p, PR)
                        /\ \/ Len(p) > Len(PR) + 1
                           \/ Len(p) = Len(PR) + 1 /\ fs0[p].kind = "dir"}

\* C5: without the recursive flag the walk of a root directory leaves its
\* subdirectories and their contents as they were; with it, once the walk
\* has ended with no failed operation, nothing of the subtree is left.
C5_SubtreeKeptOrRemoved ==
    RootDirWalked =>
        /\ ~opts.recursive =>
               \A p \in BelowSubdirs : p \in DOMAIN fs /\ fs[p] = fs0[p]
        /\ (/\ opts.recursive
            /\ pc \in {"done", "panic"}
            /\ faults = 0
            /\ error_counter = 0
            /\ ~Overflows(argv)) =>
               \A p \in DOMAIN fs : ~Under(p, PR)

\* the entries frame i loses in a step
EntriesLost(i) == stack[i].entries \ stack'[i].entries

\* C6: a step that counts an error counts one, ends neither the run nor any
\* walk but the failing one, and leaves the roots and the entries still to
\* walk as they were; a root or a listed entry leaves the work to do only by
\* being walked (or, for an entry, by being unreadable or gone), and main
\* ends only when no root is left.
C6_ErrorsIsolated ==
    [][/\ error_counter' # error_counter =>
            /\ error_counter' = error_counter + 1
            /\ todo' = todo
            /\ pc' \in {"walk", "roots"}
            /\ \/ stack' = SubSeq(stack, 1, Len(stack) - 1)
               \/ \E e \in top.entries :
                    stack' = SetTop([top EXCEPT !.entries = @ \ {e}])
       /\ \A f \in todo \ todo' : <<f, 0>> \in walked'
       /\ \A i \in 1..Len(stack) :
            IF i <= Len(stack')
            THEN \A e \in EntriesLost(i) :
                    \/ stack' = Append(SetTop([top EXCEPT !.entries = @ \ {e}]),
                                       Frame(e, top.depth + 1))
                          /\ <<e, top.depth + 1>> \in walked'
                    \/ error_counter' = error_counter + 1
                    \/ e \notin DOMAIN fs
            ELSE stack[i].entries = {}
       /\ pc' = "done" => todo = {} /\ stack = <<>>
      ]_vars

\* after an error was counted, the walk of a sibling entry begins
C6_Witness == At("resolve") /\ top.depth = 1 /\ error_counter >= 1

\* C7: main returns only once every root has been walked, returns success
\* exactly when error_counter is 0, and otherwise reports the counter's value.
C7_OutcomeByCounter ==
    /\ result.ret # "none" => pc = "done"
    /\ pc = "done" =>
        /\ todo = {} /\ stack = <<>>
        /\ \A f \in opts.files : <<f, 0>> \in walked
        /\ result.ret \in {"ok", "err"}
        /\ result.ret = "ok" <=> error_counter = 0
        /\ result.ret = "err" => result.errors = error_counter

\* main returned an error after walking two roots
C7_Witness ==
    pc = "done" /\ result.ret = "err" /\ Cardinality(opts.files) = 2
        /\ error_counter = 1

ZeroPasses == IF opts.zero THEN 1 ELSE 0

\* the operations of a successful wipe with the zero pass iff z and rounds
\* 1..n: each pass and its sync, then the rename and the unlink
ExpectedOps(z, n) ==
    [i \in 1..(2 * ((IF z THEN 1 ELSE 0) + n)) |->
        [op |-> IF i % 2 = 1 THEN "pass" ELSE "sync",
         n |-> ((i - 1) \div 2) + (IF z THEN 0 ELSE 1)]]
        \o <<RenameOp, UnlinkOp>>

\* C8: a successful wipe_loop has performed num_rounds passes, and one more
\* with the zero flag: round 0 first iff the flag is set, then rounds
\* 1..num_rounds in order, each followed by its sync, then one rename and
\* one unlink.
C8_WipeSequence ==
    wl.done = "ok" =>
        /\ Cardinality(OpsNamed(wl.ops, "pass")) - ZeroPasses = opts.num_rounds
        /\ wl.ops = ExpectedOps(opts.zero, opts.num_rounds)

\* the "[round: N]" lines of the passes begun so far
RoundLines ==
    LET passes == SelectSeq(wl.ops, LAMBDA o : o.op = "pass")
    IN  [i \in DOMAIN passes |-> RoundLine(passes[i].n)]

\* C9 as stated: at level 1 the one "[wipe]" line, at level 2 and above the
\* "[wipe]" line and one "[round: N]" line per pass, at level 0 nothing.
C9_Original ==
    wl.path # Nil =>
        wl.out = IF opts.verbose = 0 THEN <<>>
                 ELSE IF opts.verbose = 1 THEN <<WipeLine>>
                 ELSE <<WipeLine>> \o RoundLines

\* C9, amended: at level 1 the one "[wipe]" line and no other; at level 2 and
\* above one "[round: N]" line per pass begun, in order, and no "[wipe]"
\* line; at level 0 nothing.
C9_ProgressLines ==
    wl.path # Nil =>
        wl.out = IF opts.verbose = 0 THEN <<>>
                 ELSE IF opts.verbose = 1 THEN <<WipeLine>>
                 ELSE RoundLines

\* a wipe with the zero pass and two rounds has succeeded at level 2
C9_Witness ==
    /\ wl.done = "ok" /\ opts.verbose = 2 /\ opts.zero /\ opts.num_rounds = 2
    /\ wl.out = <<RoundLine(0), RoundLine(1), RoundLine(2)>>

\* C10: the Options get_opts returns have num_rounds >= 1 and a block_size
\* of at least one byte that is the MiB value times 2^20.
C10_OptsAtLeastOne ==
    pc = "alloc" =>
        /\ opts.num_rounds >= 1
        /\ opts.block_size >= 1
        /\ opts.block_size % Pow2(MIB_SHIFT) = 0
        /\ opts.block_size \div Pow2(MIB_SHIFT) =
              (IF argv.b < 1 THEN DEFAULT_BLOCK_SIZE ELSE argv.b)

\* a step of the last wipe_loop failed before the rename was done
FailedBeforeUnlink == wl.failed \notin {"none", "unlink"}

\* the passes of ops are consecutive rounds, each but perhaps the last
\* followed by its sync
PassesInOrder(ops) ==
    \A i \in DOMAIN ops :
        /\ ops[i].op = (IF i % 2 = 1 THEN "pass" ELSE "sync")
        /\ ops[i].n = ((i - 1) \div 2) + (IF opts.zero THEN 0 ELSE 1)

\* the call of wipe_loop whose step failed: it returned the error, it began
\* no pass after the failing one, it renamed and unlinked nothing, and the
\* file is where it was
AbortedAtFailure ==
    FailedBeforeUnlink =>
        /\ wl.done = "err"
        /\ error_counter >= 1
        /\ PassesInOrder(wl.ops)
        /\ Len(wl.ops) % 2 = (IF wl.failed = "rename" THEN 0 ELSE 1)
        /\ wl.path \in DOMAIN fs
        /\ fs[wl.path].kind = "file"

\* the step in which a step of wipe or wipe_loop fails
FailingStep ==
    wl'.failed # wl.failed /\ wl'.failed \notin {"none", "unlink"}

\* C11: when a step of a file's wipe fails (open, size check, write, sync,
\* rename), that call begins no later pass and performs no rename and no
\* unlink, the file stays where it was, the error is counted once as that
\* call's error, and the walks in progress above it go on with the roots
\* and entries they had left.
C11_FailureAborts ==
    /\ []AbortedAtFailure
    /\ [][/\ FailingStep =>
                /\ wl'.path = wl.path /\ wl'.ops = wl.ops
                /\ fs' = fs
                /\ error_counter' = error_counter + 1
                /\ stack' = SubSeq(stack, 1, Len(stack) - 1)
                /\ todo' = todo
                /\ pc' \in {"walk", "roots"}
          /\ (FailedBeforeUnlink /\ wl' # wl) =>
                wl'.failed = "none" /\ wl'.ops = <<>>
          /\ (FailedBeforeUnlink /\ wl' = wl) =>
                wl.path \in DOMAIN fs' /\ fs'[wl.path] = fs[wl.path]
         ]_vars

\* a write of a file's pass failed and its directory has an entry left to walk
C11_Witness ==
    /\ At("entries") /\ top.entries # {}
    /\ wl.failed = "write" /\ wl.done = "err"
    /\ wl.path \in DOMAIN fs

\* the directory a walked path resolved to as the run began (Nil when it is
\* no directory)
DirOf(path) ==
    LET c == canonicalize(fs0, path)
    IN  IF c # Nil /\ fs0[c].kind = "dir" THEN c ELSE Nil

\* the directories walk met below depth 0 without the recursive flag
SkippedDirs ==
    {DirOf(w[1]) : w \in {v \in walked : v[2] > 0 /\ ~opts.recursive}} \ {Nil}

\* the errors printed that are not the failed removal of a listed directory
OtherErrors == SelectSeq(stderr, LAMBDA e : e.op # "entries")

\* C12: a run that met a directory below depth 0 without the recursive flag
\* has left that directory and what it holds as they were, and when nothing
\* else failed in the run its error counter is 0 at the end.
C12_SkipNoError ==
    (pc = "done" /\ SkippedDirs # {}) =>
        /\ \A d \in SkippedDirs : \A p \in DOMAIN fs0 :
              Under(p, d) => p \in DOMAIN fs /\ fs[p] = fs0[p]
        /\ (faults = 0 /\ OtherErrors = <<>>) => error_counter = 0

\* main is past the allocation of the zero block (or died in it)
PastAlloc == pc \notin {"start", "alloc"} /\ opts # DefaultOpts

\* C13: with the zero flag the zero block is present and as long as the
\* configured block size, so the unwrap of round 0 finds it; round 0 writes
\* from that block, whatever the size of the file, and has written exactly
\* file_size bytes when its loop ends; each round 1..N asks make_block for
\* min(configured block size, file size) bytes.
C13_BlockOfRound ==
    /\ (PastAlloc /\ opts.zero) => zero_block = Some(opts.block_size)
    /\ (At("block") /\ top.n = 0) => zero_block.some
    /\ (At("write") /\ top.n = 0) =>
            /\ top.block = zero_block.len
            /\ top.block_size = opts.block_size
    /\ (PassOver /\ top.n = 0) => PassBytes = top.file_size
    /\ (At("write") /\ top.n >= 1) =>
            top.block_size = Min(opts.block_size, top.file_size)

\* the process has ended: main returned, or a panic aborted it
Ended == pc \in {"done", "panic"}

\* C14: every run ends, whatever the roots, the tree, the options and the
\* failures: each turn of a write loop brings pos closer to file_size, so
\* that the loop ends, every walk returns, and when main returns no walk is
\* in progress and every root has been walked at depth 0.
C14_RunTerminates ==
    /\ []((At("write") /\ top.pos < top.file_size) =>
            top.pos + top.block_size > top.pos)
    /\ <>Ended
    /\ [](pc = "done" =>
            /\ stack = <<>>
            /\ \A f \in opts.files : <<f, 0>> \in walked)

\* buf is what the loop may append from position pos on: full tokens, each
\* followed by one space, while token and space stay below size, and then
\* the prefix of a token that ends exactly at size
RECURSIVE TokensThenPrefix(_, _, _)
TokensThenPrefix(buf, size, pos) ==
    \E value \in Range(values) :
        LET value_len == Len(value)
        IN  IF pos + value_len + 1 >= size
            THEN /\ size - pos <= value_len
                 /\ buf = SubSeq(value, 1, size - pos)
            ELSE /\ Len(buf) >= value_len + 1
                 /\ SubSeq(buf, 1, value_len + 1) = value \o <<" ">>
                 /\ TokensThenPrefix(SubSeq(buf, value_len + 2, Len(buf)), size,
                                     pos + value_len + 1)

\* C15: make_block returns full tokens, each followed by one space, as long
\* as token and space stay below size, and ends with the prefix of a token,
\* without a space, that brings the buffer to exactly size bytes.
C15_TokensThenPrefix ==
    mb_out.ret =>
        /\ ~mb_out.panic
        /\ IF mb_size = 0 THEN mb_out.buf = <<>>
           ELSE TokensThenPrefix(mb_out.buf, mb_size, 0)

\* printable ASCII bytes: 0x20 to 0x7E, but for the double quote, the
\* backslash and the grave accent
PrintableAscii ==
    {" ", "!", "#", "$", "%", "&", "'", "(", ")", "*", "+", ",", "-", ".",
     "/", "0", "1", "2", "3", "4", "5", "6", "7", "8", "9", ":", ";", "<", "=",
     ">", "?", "@", "A", "B", "C", "D", "E", "F", "G", "H", "I", "J", "K", "L",
     "M", "N", "O", "P", "Q", "R", "S", "T", "U", "V", "W", "X", "Y", "Z", "[",
     "]", "^", "_", "a", "b", "c", "d", "e", "f", "g", "h", "i", "j",
     "k", "l", "m", "n", "o", "p", "q", "r", "s", "t", "u", "v", "w", "x", "y",
     "z", "{", "|", "}", "~"}

\* a name that can stand as one component of a path
FileNameToken(value) ==
    /\ Len(value) >= 2 /\ Len(value) <= 14
    /\ \A i \in DOMAIN value : value[i] \in PrintableAscii /\ value[i] # "/"

\* the step in which the last wipe_loop renames its file
RenameStep ==
    /\ wl'.path = wl.path
    /\ OpsNamed(wl.ops, "rename") = {}
    /\ OpsNamed(wl'.ops, "rename") # {}

\* C16: the vocabulary main starts with is not empty and each token is 2 to
\* 14 printable ASCII bytes with no path separator; the rename of a wipe
\* moves the file to a path in its own parent directory whose file name is
\* one token (the path the unlink then removes).
C16_RenameTarget ==
    /\ [](pc = "alloc" =>
            /\ Len(values) > 0
            /\ \A i \in DOMAIN values : FileNameToken(values[i]))
    /\ [][RenameStep =>
            \E value \in Range(values) :
                \E new_path \in {Parent(wl.path) \o <<value>>} :
                    /\ FileNameToken(value)
                    /\ Len(new_path) = Len(wl.path)
                    /\ Parent(new_path) = Parent(wl.path)
                    /\ IF wl'.failed = "unlink"
                       THEN /\ DOMAIN fs' = (DOMAIN fs \ {wl.path}) \cup {new_path}
                            /\ fs'[new_path] = fs[wl.path]
                       ELSE DOMAIN fs' = DOMAIN fs \ {wl.path, new_path}
         ]_vars

\* a file was renamed to a 14-byte token beside it and the unlink failed
C16_Witness ==
    /\ wl.failed = "unlink" /\ wl.path \notin DOMAIN fs
    /\ \E p \in DOMAIN fs \ DOMAIN fs0 :
            Parent(p) = Parent(wl.path) /\ Len(p[Len(p)]) = 14

\* the step in which walk calls remove_dir on the directory it listed, and
\* returns
RemovalStep == At("entries") /\ Len(stack') < Len(stack)

\* the errors printed for unreadable entries of the directory of the top call
EntryErrors ==
    SelectSeq(stderr, LAMBDA e : e.op = "entry" /\ e.path = top.path)

\* the listed entries that are still there and were not walked
NotWalked ==
    {e \in top.listed : e \in DOMAIN fs /\ <<e, top.depth + 1>> \notin walked}

\* C17: walk attempts the removal of a directory it listed once, as its last
\* step, after every entry of the listing has been walked (an entry that
\* could not be read or is gone is not); the removal either removes the
\* empty directory or fails, leaving it, and that failure is the error of
\* this call; only then does a directory disappear; and a child call that
\* returns an error leaves the call above it where it was.
C17_RemoveDirLast ==
    [][/\ RemovalStep =>
            /\ stack' = SubSeq(stack, 1, Len(stack) - 1)
            /\ top.entries = {}
            /\ Cardinality(NotWalked) <= Len(EntryErrors)
            /\ \/ /\ Children(fs, top.cpath) = {}
                  /\ fs' = RemoveNode(fs, top.cpath)
                  /\ error_counter' = error_counter /\ stderr' = stderr
               \/ /\ fs' = fs
                  /\ error_counter' = error_counter + 1
                  /\ stderr' = Append(stderr, [op |-> "entries", path |-> top.path])
       /\ \A p \in DOMAIN fs \ DOMAIN fs' :
            fs[p].kind = "dir" => RemovalStep /\ p = top.cpath
       /\ (/\ Len(stack) >= 2 /\ Len(stack') = Len(stack) - 1
           /\ error_counter' # error_counter) =>
                /\ stack'[Len(stack')] = stack[Len(stack) - 1]
                /\ stack'[Len(stack')].at = "entries"
      ]_vars

\* an entry of the root directory returned an error and the removal of the
\* directory, attempted after it, failed in turn
C17_Witness ==
    /\ Len(stderr) = 2
    /\ stderr[2] = [op |-> "entries", path |-> PR]
    /\ stderr[1].path # PR
    /\ PR \in DOMAIN fs

\* the regular files a step discards: those of before the step that are at
\* no path after it
Discarded ==
    IF DOMAIN fs' = DOMAIN fs THEN {}
    ELSE {p \in DOMAIN fs :
            fs[p].kind = "file" /\ \A q \in DOMAIN fs' : fs'[q] # fs[p]}

\* the last passes over the file are the configured ones, in order, and each
\* wrote as many bytes as the file holds
FullyOverwritten(node) ==
    LET z == IF opts.zero THEN 1 ELSE 0
        first == Len(node.wr) - opts.num_rounds - z
    IN  /\ first >= 0
        /\ \A i \in 1..(Len(node.wr) - first) :
              /\ node.wr[first + i].round = i - z
              /\ node.wr[first + i].bytes = node.size

\* C18: every regular file a step of the run unlinks or replaces has by then
\* been overwritten by all the configured passes (round 0 with the zero
\* flag, then rounds 1..N), a file that bears the name of a token included,
\* and a directory is removed only when it is empty.
C18_NothingDiscardedUnwiped ==
    [][/\ \A p \in Discarded : FullyOverwritten(fs[p])
       /\ \A p \in DOMAIN fs \ DOMAIN fs' :
            fs[p].kind = "dir" => Children(fs, p) = {}
      ]_vars

\* the lines printed for the path walk was called with
ErrorsOf(path) == SelectSeq(stderr, LAMBDA e : e.path = path)

\* C19: error_counter is 0 until an error occurs and equals, at every moment
\* and at the end of the run, the number of errors printed; it changes only
\* by +1, in a step in which a call of walk returns an error to walk1 or a
\* directory entry cannot be read; a root that does not resolve has counted
\* exactly one error when the run ends.
C19_CounterCountsErrors ==
    /\ [](/\ error_counter >= 0
          /\ error_counter = Len(stderr)
          /\ pc \in {"start", "alloc"} => error_counter = 0
          /\ pc = "done" =>
                \A f \in opts.files :
                    canonicalize(fs0, f) = Nil =>
                        ErrorsOf(f) = <<[op |-> "resolve", path |-> f]>>)
    /\ [][error_counter' # error_counter =>
            /\ error_counter' = error_counter + 1
            /\ Len(stderr') = Len(stderr) + 1
            /\ pc = "walk" /\ stack # <<>>
            /\ \/ stack' = SubSeq(stack, 1, Len(stack) - 1)
               \/ /\ stderr'[Len(stderr')] = [op |-> "entry", path |-> top.path]
                  /\ \E e \in top.entries :
                        stack' = SetTop([top EXCEPT !.entries = @ \ {e}])
         ]_vars

\* the run is over: of two roots one did not resolve, and it is the one
\* error counted
C19_Witness ==
    /\ pc = "done" /\ PM \in opts.files
    /\ error_counter = 1
    /\ stderr = <<[op |-> "resolve", path |-> PM]>>

\* the paths whose file or directory a step overwrites, replaces, renames or
\* removes
Touched == {p \in DOMAIN fs : p \notin DOMAIN fs' \/ fs'[p] # fs[p]}

\* p is at or below a path of the command line, as written or resolved
UnderRoot(p) ==
    \E f \in argv.files :
        \/ Under(p, f)
        \/ canonicalize(fs0, f) # Nil /\ Under(p, canonicalize(fs0, f))

\* C20: every file a step overwrites, renames, replaces or unlinks and every
\* directory it removes is at or below one of the paths of the command
\* line, in trees of files, directories and symbolic links.
C20_OnlyUnderRoots ==
    [][\A p \in Touched : UnderRoot(p)]_vars

====
